---- MODULE Spec2Model ----
(***************************************************************************)
(* A model of PyPICrawler (all_package_7.py): the metadata fetch, the      *)
(* recency filter, the artifact selection and download, the feed parser    *)
(* and the crawl_and_download loop.                                        *)
(***************************************************************************)
EXTENDS Integers, Sequences, FiniteSets, TLC

VARIABLES
    package_list,      \* crawl_and_download: the candidate list of the run
    source,            \* "explicit" | "feed" | "none": where package_list came from
    idx,               \* crawl_and_download: 1-based position of the loop
    pc,                \* position in the program
    package_info,      \* crawl_and_download: metadata of the current candidate
    downloaded_count,  \* crawl_and_download: the success counter
    reported,          \* the count logged by the final summary, -1 before it
    files,             \* the download directory: filename -> content
    trace,             \* history of the run: requests, writes, pauses
    arg,               \* argument of the function under test (function specs)
    ret                \* its result, "pending" before the call

vars == <<package_list, source, idx, pc, package_info, downloaded_count,
          reported, files, trace, arg, ret>>

----------------------------------------------------------------------------
\* Bounds of the model

\* upload wall-clock hours range over -MaxWall..MaxWall around the cutoff
MaxWall == 2
\* file records per release in the filter's inputs
MaxFiles == 2
\* file records per release in download_package's inputs
MaxRecs == 2
\* calls of download_package on one directory
MaxCalls == 2
\* entries of a candidate list in crawl_and_download
MaxList == 2
\* items of the hand-written feeds
MaxRssItems == 3
\* generated feeds have up to RssLimit + MaxOver items
MaxOver == 2

----------------------------------------------------------------------------
\* Python values

None == [shape |-> "None"]

\* The wall-clock hour of datetime(2025, 7, 1): hours are counted from it.
CutoffWall == 0

Suffixes == {"Z", "+00:00", "+02:00", "-02:00", "", "junk"}

\* UTC offsets (hours) datetime.fromisoformat reads from a suffix
OffsetOf(suffix) ==
    CASE suffix = "+00:00" -> 0
      [] suffix = "+02:00" -> 2
      [] suffix = "-02:00" -> -2

\* str.replace('Z', '+00:00') on the timestamp
ReplaceZ(ts) ==
    [ts EXCEPT !.suffix = IF ts.suffix = "Z" THEN "+00:00" ELSE ts.suffix]

\* datetime.fromisoformat: an aware datetime, a naive one, or ValueError
FromIsoFormat(ts) ==
    CASE ts.suffix \in {"+00:00", "+02:00", "-02:00"} ->
             [ok |-> TRUE, wall |-> ts.wall, aware |-> TRUE,
              tz |-> OffsetOf(ts.suffix)]
      [] ts.suffix = "" ->
             [ok |-> TRUE, wall |-> ts.wall, aware |-> FALSE, tz |-> 0]
      [] OTHER -> [ok |-> FALSE, wall |-> 0, aware |-> FALSE, tz |-> 0]

\* ">" written for ">="
DatetimeGt(a, b) ==
    IF a.aware THEN (a.wall - a.tz) > (b.wall - b.tz) ELSE a.wall > b.wall

\* datetime >= datetime: aware values compare as instants, naive as wall clocks
DatetimeGe(a, b) ==
    IF a.aware THEN (a.wall - a.tz) >= (b.wall - b.tz) ELSE a.wall >= b.wall

----------------------------------------------------------------------------
\* Metadata documents (the JSON of https://pypi.org/pypi/{name}/json)

\* Filenames are sequences of characters.
TarGz == <<".", "t", "a", "r", ".", "g", "z">>
Whl == <<".", "w", "h", "l">>
Zip == <<".", "z", "i", "p">>

FullKeys == {"filename", "url", "upload_time_iso_8601"}

\* "upload_time_iso_8601": null
NullTime == [null |-> TRUE, wall |-> 0, suffix |-> ""]

Timestamp(w, s) == [null |-> FALSE, wall |-> w, suffix |-> s]

\* A JSON object with no members, as the "releases" mapping
EmptyMap == <<>>

SeqsUpTo(S, n) == UNION {[1..k -> S] : k \in 0..n}

\* A document whose "info" or "releases" member is absent or null
BadShapes == {"no_info", "info_null", "no_version", "no_releases", "releases_null"}

BadDoc(sh) == [shape |-> sh, version |-> "2.0", releases |-> EmptyMap]

OkDoc(version, releases) ==
    [shape |-> "ok", version |-> version, releases |-> releases]

----------------------------------------------------------------------------
\* is_updated_since_july_2025

\* datetime(2025, 7, 1, tzinfo=upload_date.tzinfo)
CutoffDate(upload_date) ==
    [ok |-> TRUE, wall |-> CutoffWall, aware |-> upload_date.aware,
     tz |-> upload_date.tz]

\* The result: "True", "False", or the name of the exception that escapes
\* (only KeyError, ValueError and IndexError are caught).
is_updated_since_july_2025(info) ==
    CASE info.shape = "no_info" -> "False"
      [] info.shape = "info_null" -> "TypeError"
      [] info.shape = "no_version" -> "False"
      [] info.shape = "no_releases" -> "False"
      [] info.shape = "releases_null" -> "TypeError"
      [] OTHER ->
         IF info.version \notin DOMAIN info.releases THEN "False"
         ELSE LET release_files == info.releases[info.version] IN
              IF release_files = <<>> THEN "False"
              ELSE LET first == release_files[1] IN
                   IF "upload_time_iso_8601" \notin first.keys THEN "False"
                   ELSE IF first.time.null THEN "AttributeError"
                   ELSE LET upload_date == FromIsoFormat(ReplaceZ(first.time)) IN
                        IF ~upload_date.ok THEN "False"
                        ELSE LET cutoff_date == CutoffDate(upload_date) IN
                             IF DatetimeGe(upload_date, cutoff_date)
                             THEN "True" ELSE "False"

----------------------------------------------------------------------------
\* download_package

\* str.endswith
EndsWith(s, suffix) ==
    /\ Len(s) >= Len(suffix)
    /\ SubSeq(s, Len(s) - Len(suffix) + 1, Len(s)) = suffix

\* One selection loop: the position of the first record whose filename ends in
\* suffix (break), 0 when the loop ends without one, -1 when a record without
\* a "filename" member is reached first (KeyError)
RECURSIVE FirstEndingIn(_, _, _)
FirstEndingIn(releases, suffix, k) ==
    IF k > Len(releases) THEN 0
    ELSE IF "filename" \notin releases[k].keys THEN -1
    ELSE IF EndsWith(releases[k].filename, suffix) THEN k
    ELSE FirstEndingIn(releases, suffix, k + 1)

\* One loop accepting either suffix
RECURSIVE FirstEndingInEither(_, _)
FirstEndingInEither(releases, k) ==
    IF k > Len(releases) THEN 0
    ELSE IF "filename" \notin releases[k].keys THEN -1
    ELSE IF EndsWith(releases[k].filename, TarGz)
            \/ EndsWith(releases[k].filename, Whl) THEN k
    ELSE FirstEndingInEither(releases, k + 1)

SelectFileAnySuffix(releases) == FirstEndingInEither(releases, 1)

\* The .tar.gz loop, then the .whl loop when it found nothing
SelectFile(releases) ==
    LET tar_gz_file == FirstEndingIn(releases, TarGz, 1) IN
    IF tar_gz_file # 0 THEN tar_gz_file
    ELSE FirstEndingIn(releases, Whl, 1)

ExistsNever(dir, filename) == FALSE

\* os.path.exists(file_path)
Exists(dir, filename) == filename \in DOMAIN dir

\* The target opened for writing before the request is made
TouchedBeforeRequest(dir, filename) == (filename :> "partial") @@ dir

\* The directory after session.get or raise_for_status raised: open() was
\* never reached
AfterFailedRequest(dir, filename) == dir

\* open(file_path, 'wb') and f.write(response.content): the file holds the
\* payload; or open raised and nothing was created; or write raised after
\* open had created (or truncated) the file
AfterWrite(dir, filename, fs, content) ==
    CASE fs = "ok" -> (filename :> content) @@ dir
      [] fs = "write_fail" -> (filename :> "partial") @@ dir
      [] OTHER -> dir

\* The call's result, the artifact requests it issued and the directory it
\* leaves. net: the outcome of the artifact request; fs: of the file write;
\* content: the payload of the response.
download_package(info, dir, net, fs, content) ==
    LET failed == [result |-> FALSE, requests |-> <<>>, dir |-> dir] IN
    IF info.shape # "ok" THEN failed
    ELSE IF info.version \notin DOMAIN info.releases THEN failed
    ELSE LET releases == info.releases[info.version]
             k == SelectFile(releases) IN
         IF k <= 0 THEN failed
         ELSE LET tar_gz_file == releases[k] IN
              IF "url" \notin tar_gz_file.keys THEN failed
              ELSE IF Exists(dir, tar_gz_file.filename)
              THEN [result |-> TRUE, requests |-> <<>>, dir |-> dir]
              ELSE IF net # "ok"
              THEN [result |-> FALSE, requests |-> <<tar_gz_file.url>>,
                    dir |-> AfterFailedRequest(dir, tar_gz_file.filename)]
              ELSE [result |-> fs = "ok", requests |-> <<tar_gz_file.url>>,
                    dir |-> AfterWrite(dir, tar_gz_file.filename, fs, content)]

\* What the network and the filesystem can answer to one call
Contents == {"c1", "c2"}

Environments ==
    {[net |-> "fail", fs |-> "ok", content |-> "c1"]}
    \cup {[net |-> "ok", fs |-> f, content |-> "c1"] :
             f \in {"open_fail", "write_fail"}}
    \cup {[net |-> "ok", fs |-> "ok", content |-> c] : c \in Contents}

----------------------------------------------------------------------------
\* The history of a run: an entry per request, file write, filter result,
\* download_package result and pause, with the candidate's position

Event(ev, i, what, ok) == [ev |-> ev, idx |-> i, what |-> what, ok |-> ok]

----------------------------------------------------------------------------
\* get_recent_packages_from_rss

\* packages[:100]
RssLimit == 100

Whitespace == {" ", "\t", "\n"}

Min(a, b) == IF a <= b THEN a ELSE b

\* The first position at or after k of s that holds (ws = TRUE) or does not
\* hold (ws = FALSE) a whitespace character, Len(s) + 1 when there is none
RECURSIVE Scan(_, _, _)
Scan(s, k, ws) ==
    IF k > Len(s) THEN k
    ELSE IF (s[k] \in Whitespace) = ws THEN k
    ELSE Scan(s, k + 1, ws)

\* title.text.split()[0]; <<>> stands for the IndexError of an empty split
FirstToken(s) ==
    LET a == Scan(s, 1, FALSE) IN
    IF a > Len(s) THEN <<>> ELSE SubSeq(s, a, Scan(s, a, TRUE) - 1)

Range(f) == {f[x] : x \in DOMAIN f}

\* The list returned whole
UncutList(packages) == packages

\* packages[:100]
CutList(packages) == SubSeq(packages, 1, Min(Len(packages), RssLimit))

\* package_name not in packages, never true
AlreadyListedNever(packages, package_name) == FALSE

\* package_name in packages
AlreadyListed(packages, package_name) == package_name \in Range(packages)

\* The body of the loop over root.findall('.//item') on the packages collected
\* so far: ok = FALSE when title.text is None (AttributeError) or blank
\* (IndexError)
RssItem(packages, item) ==
    IF item.title = "absent" THEN [ok |-> TRUE, packages |-> packages]
    ELSE IF item.title = "null" THEN [ok |-> FALSE, packages |-> packages]
    ELSE LET package_name == FirstToken(item.text) IN
         IF package_name = <<>> THEN [ok |-> FALSE, packages |-> packages]
         ELSE IF AlreadyListed(packages, package_name)
         THEN [ok |-> TRUE, packages |-> packages]
         ELSE [ok |-> TRUE, packages |-> Append(packages, package_name)]

\* The request and ET.fromstring: feed.status is "ok", "fail" (the request
\* raised) or "badxml" (the parser raised); every exception returns []
RssFetch ==
    /\ pc = "rss_fetch"
    /\ IF arg.status = "ok"
       THEN pc' = "rss_loop" /\ idx' = 1 /\ ret' = <<>>
       ELSE pc' = "rss_done" /\ idx' = idx /\ ret' = <<>>
    /\ trace' = Append(trace, Event("rss", 0, <<>>, arg.status # "fail"))
    /\ UNCHANGED <<package_list, source, package_info, downloaded_count,
                   reported, files, arg>>

\* One iteration of the loop; an exception leaves it and returns []
RssIterate ==
    /\ pc = "rss_loop"
    /\ idx <= Len(arg.items)
    /\ LET r == RssItem(ret, arg.items[idx]) IN
       IF r.ok
       THEN pc' = pc /\ idx' = idx + 1 /\ ret' = r.packages
       ELSE pc' = "rss_done" /\ idx' = idx /\ ret' = <<>>
    /\ UNCHANGED <<package_list, source, package_info, downloaded_count,
                   reported, files, trace, arg>>

\* return packages[:100]
RssReturn ==
    /\ pc = "rss_loop"
    /\ idx > Len(arg.items)
    /\ pc' = "rss_done"
    /\ ret' = CutList(ret)
    /\ UNCHANGED <<package_list, source, idx, package_info, downloaded_count,
                   reported, files, trace, arg>>

----------------------------------------------------------------------------
\* get_package_info and crawl_and_download

Title(text) == [title |-> "text", text |-> text]

Names == {<<"a">>, <<"b">>}

\* Each record's url names its position in the list
UrlAt(k) == <<"u", k>>

FileRecord(filename, k, time) ==
    [keys |-> FullKeys, filename |-> filename, url |-> UrlAt(k), time |-> time]

\* What the index can answer for a name that response.json() parses
Documents(name) ==
    {OkDoc("2.0", "2.0" :> <<FileRecord(name \o Whl, 1, Timestamp(CutoffWall + 1, "Z")),
                             FileRecord(name \o TarGz, 2, Timestamp(CutoffWall + 1, "Z"))>>),
     OkDoc("2.0", "2.0" :> <<FileRecord(name \o Zip, 1, Timestamp(CutoffWall, "+00:00"))>>),
     OkDoc("2.0", "2.0" :> <<FileRecord(name \o TarGz, 1, Timestamp(CutoffWall - 1, "Z"))>>),
     OkDoc("2.0", "2.0" :> <<FileRecord(name \o TarGz, 1, Timestamp(CutoffWall + 1, "junk"))>>),
     OkDoc("2.0", "2.0" :> <<FileRecord(name \o TarGz, 1, NullTime)>>),
     OkDoc("2.0", "2.0" :> <<>>),
     BadDoc("info_null")}

\* get_package_info: the parsed document, or None when a RequestException was
\* raised (transport failure, timeout, non-2xx status, a body that is not JSON)
Responses(name) == Documents(name) \cup {None}

ExplicitLists == SeqsUpTo(Names, MaxList)

CrawlFeeds ==
    {[status |-> "fail", items |-> <<>>]}
    \cup {[status |-> "ok", items |-> its] :
             its \in SeqsUpTo({Title(<<"a", " ", "1">>), Title(<<"b", " ", "2">>),
                               Title(<<" ">>)}, MaxList)}

NoFeed == [status |-> "fail", items |-> <<>>]

Init ==
    /\ pc = "start"
    /\ package_list = <<>>
    /\ source = "none"
    /\ idx = 0
    /\ package_info = None
    /\ downloaded_count = 0
    /\ reported = -1
    /\ files \in {EmptyMap, (<<"a">> \o TarGz) :> "old"}
    /\ trace = <<>>
    /\ arg = NoFeed
    /\ ret = <<>>

\* crawl_and_download(package_list) with an explicit list
StartExplicit ==
    /\ pc = "start"
    /\ \E pl \in ExplicitLists : package_list' = pl
    /\ source' = "explicit"
    /\ pc' = "check_list"
    /\ UNCHANGED <<idx, package_info, downloaded_count, reported, files,
                   trace, arg, ret>>

\* crawl_and_download() with package_list None: the feed is asked for; arg is
\* what the feed request will answer
StartFromFeed ==
    /\ pc = "start"
    /\ \E feed \in CrawlFeeds : arg' = feed
    /\ source' = "feed"
    /\ pc' = "rss_fetch"
    /\ UNCHANGED <<package_list, idx, package_info, downloaded_count,
                   reported, files, trace, ret>>

\* package_list = self.get_recent_packages_from_rss()
TakeFeedList ==
    /\ pc = "rss_done"
    /\ source = "feed"
    /\ package_list' = ret
    /\ pc' = "check_list"
    /\ UNCHANGED <<source, idx, package_info, downloaded_count, reported,
                   files, trace, arg, ret>>

\* if not package_list: return; else downloaded_count = 0 and the loop starts
CheckList ==
    /\ pc = "check_list"
    /\ IF package_list = <<>>
       THEN pc' = "returned" /\ idx' = idx
       ELSE pc' = "fetch" /\ idx' = 1
    /\ downloaded_count' = 0
    /\ UNCHANGED <<package_list, source, package_info, reported, files,
                   trace, arg, ret>>

\* The loop going two entries ahead
SkipIdx(i) == i + 2

\* The loop going on to the next entry of package_list
NextIdx(i) == i + 1

\* package_info = self.get_package_info(package_name); None: continue
GetPackageInfo ==
    /\ pc = "fetch"
    /\ idx <= Len(package_list)
    /\ \E response \in Responses(package_list[idx]) :
          /\ package_info' = response
          /\ trace' = Append(trace, Event("meta", idx, package_list[idx],
                                          response.shape # "None"))
          /\ IF response.shape = "None"
             THEN pc' = "fetch" /\ idx' = NextIdx(idx)
             ELSE pc' = "filter" /\ idx' = idx
    /\ UNCHANGED <<package_list, source, downloaded_count, reported, files,
                   arg, ret>>

\* A candidate that is not recent downloaded all the same
AfterFilterNoSkip(result) ==
    CASE result \in {"True", "False"} -> "download"
      [] OTHER -> "aborted"

\* Where the loop goes on the filter's result: to the download, to the next
\* candidate (continue), or out of crawl_and_download with the exception
AfterFilter(result) ==
    CASE result = "True" -> "download"
      [] result = "False" -> "fetch"
      [] OTHER -> "aborted"

\* if not self.is_updated_since_july_2025(package_info): continue
CheckUpdated ==
    /\ pc = "filter"
    /\ LET result == is_updated_since_july_2025(package_info) IN
       /\ pc' = AfterFilter(result)
       /\ idx' = IF pc' = "fetch" THEN NextIdx(idx) ELSE idx
       /\ trace' = Append(trace, Event("filter", idx, result, result = "True"))
    /\ UNCHANGED <<package_list, source, package_info, downloaded_count,
                   reported, files, arg, ret>>

\* The counter raised whatever download_package returned
CountAfterAlways(count, result) == count + 1

\* if self.download_package(...): downloaded_count += 1
CountAfter(count, result) == IF result THEN count + 1 ELSE count

\* The call of download_package and the counter
DownloadPackage ==
    /\ pc = "download"
    /\ \E env \in Environments :
          LET r == download_package(package_info, files, env.net, env.fs,
                                    env.content)
              requested == [k \in DOMAIN r.requests |->
                               Event("artifact", idx, r.requests[k], env.net = "ok")]
              written == IF r.dir # files
                         THEN <<Event("write", idx, DOMAIN r.dir \ DOMAIN files,
                                      env.fs = "ok")>>
                         ELSE <<>>
          IN /\ files' = r.dir
             /\ downloaded_count' = CountAfter(downloaded_count, r.result)
             /\ trace' = trace \o requested \o written
                             \o <<Event("download", idx, <<>>, r.result)>>
    /\ pc' = "sleep"
    /\ UNCHANGED <<package_list, source, idx, package_info, reported, arg, ret>>

\* time.sleep(1), the last statement of the loop body
Sleep ==
    /\ pc = "sleep"
    /\ trace' = Append(trace, Event("sleep", idx, <<>>, TRUE))
    /\ idx' = NextIdx(idx)
    /\ pc' = "fetch"
    /\ UNCHANGED <<package_list, source, package_info, downloaded_count,
                   reported, files, arg, ret>>

\* The loop is over: the summary is logged
Finish ==
    /\ pc = "fetch"
    /\ idx > Len(package_list)
    /\ reported' = downloaded_count
    /\ pc' = "done"
    /\ UNCHANGED <<package_list, source, idx, package_info, downloaded_count,
                   files, trace, arg, ret>>

Next ==
    \/ StartExplicit
    \/ StartFromFeed
    \/ RssFetch
    \/ RssIterate
    \/ RssReturn
    \/ TakeFeedList
    \/ CheckList
    \/ GetPackageInfo
    \/ CheckUpdated
    \/ DownloadPackage
    \/ Sleep
    \/ Finish

Spec == Init /\ [][Next]_vars

----------------------------------------------------------------------------
\* Properties of crawl_and_download

IsMeta(e) == e.ev = "meta"

\* The metadata requests of the run, in the order issued
MetaRequests == SelectSeq(trace, IsMeta)

\* Candidate i's metadata was fetched and its filter returned true before
\* position k of the history
Admitted(i, k) ==
    \E j \in 1..(k - 1) :
        /\ trace[j].ev = "meta" /\ trace[j].idx = i /\ trace[j].ok
        /\ \E f \in (j + 1)..(k - 1) :
              trace[f].ev = "filter" /\ trace[f].idx = i /\ trace[f].ok

\* C1: every metadata request but the first of the run comes right after the
\* pacing pause of the candidate before it.
C1_PauseBeforeNextRequest ==
    \A k \in DOMAIN trace :
        (trace[k].ev = "meta" /\ trace[k].idx > 1)
            => /\ trace[k - 1].ev = "sleep"
               /\ trace[k - 1].idx = trace[k].idx - 1

\* C2 as stated: no name gets two metadata requests in one run, whatever the
\* candidate list.
C2_NoNameTwice ==
    \A j, k \in DOMAIN MetaRequests :
        j # k => MetaRequests[j].what # MetaRequests[k].what

\* C2 amended: the metadata requests go through the list in input order, one
\* per list position: the n-th request of the run is for entry n; a run that
\* reaches the summary has requested every entry once; and a list taken from
\* the feed holds no name twice, so no name is requested twice there.
C2_OncePerEntry ==
    /\ Len(MetaRequests) <= Len(package_list)
    /\ \A n \in DOMAIN MetaRequests :
          /\ MetaRequests[n].idx = n
          /\ MetaRequests[n].what = package_list[n]
    /\ pc = "done" => Len(MetaRequests) = Len(package_list)
    /\ source = "feed" =>
          \A j, k \in DOMAIN package_list :
              j # k => package_list[j] # package_list[k]

\* An explicit list naming one package twice, both entries requested
C2_Witness ==
    /\ pc = "done"
    /\ source = "explicit"
    /\ Len(package_list) = 2
    /\ package_list[1] = package_list[2]
    /\ Len(MetaRequests) = 2

\* C3: a run that has stopped either had an empty candidate list or went
\* through every candidate and logged the summary count.
C3_RunReachesSummary ==
    pc \notin {"start", "rss_fetch", "rss_loop", "rss_done", "check_list",
               "fetch", "filter", "download", "sleep"}
        => \/ pc = "returned" /\ package_list = <<>>
           \/ /\ pc = "done"
              /\ reported = downloaded_count
              /\ Len(MetaRequests) = Len(package_list)

\* The candidates for which download_package returned true
Succeeded ==
    {i \in DOMAIN package_list :
        \E k \in DOMAIN trace :
            /\ trace[k].ev = "download" /\ trace[k].idx = i /\ trace[k].ok
            /\ Admitted(i, k)}

\* C7: the count of the summary is the number of entries whose metadata was
\* fetched, that passed the filter and for which download_package returned
\* true.
C7_ReportedCount ==
    pc = "done" => reported = Cardinality(Succeeded)

\* Two entries: the first found its file already there, the second was not
\* downloaded; the summary says 1
C7_Witness ==
    /\ pc = "done"
    /\ Len(package_list) = 2
    /\ reported = 1
    /\ \E k \in DOMAIN trace :
          /\ trace[k].ev = "download" /\ trace[k].idx = 1 /\ trace[k].ok
          /\ trace[k - 1].ev = "filter"
    /\ \E k \in DOMAIN trace :
          trace[k].ev = "download" /\ trace[k].idx = 2 /\ ~trace[k].ok

\* An artifact request, a file write or a call of download_package for a
\* candidate comes after that candidate's metadata and its filter's true
GatedHistory ==
    \A k \in DOMAIN trace :
        trace[k].ev \in {"artifact", "write", "download"}
            => Admitted(trace[k].idx, k)

\* A step that finds the metadata absent or the candidate not recent adds no
\* request, leaves the directory and the counter alone and goes to the next
\* candidate
SkipChangesNothing ==
    (/\ Len(trace') = Len(trace) + 1
     /\ trace'[Len(trace')].ev \in {"meta", "filter"}
     /\ ~trace'[Len(trace')].ok)
        => /\ files' = files
           /\ downloaded_count' = downloaded_count
           /\ pc' \in {"fetch", "aborted"}

\* The directory and the counter change only in the call of download_package
OnlyDownloadChanges ==
    (files' # files \/ (downloaded_count' # downloaded_count /\ pc # "check_list"))
        => /\ pc = "download"
           /\ trace'[Len(trace')].ev = "download"
           /\ trace'[Len(trace')].idx = idx

\* C9: artifact requests and file writes happen only for a candidate whose
\* metadata was fetched and whose filter returned true; a candidate with
\* absent metadata or not recent gets no artifact request and changes neither
\* the directory nor the counter.
C9_DownloadOnlyWhenRecent ==
    /\ []GatedHistory
    /\ [][SkipChangesNothing /\ OnlyDownloadChanges]_vars

\* A not-recent candidate skipped, then a recent one downloaded
C9_Witness ==
    /\ pc = "done"
    /\ Len(package_list) = 2
    /\ \E k \in DOMAIN trace :
          trace[k].ev = "filter" /\ trace[k].idx = 1 /\ ~trace[k].ok
    /\ \E k \in DOMAIN trace :
          trace[k].ev = "write" /\ trace[k].idx = 2 /\ trace[k].ok
    /\ downloaded_count = 1

----------------------------------------------------------------------------
\* The recency filter applied to bounded metadata documents

Times ==
    {Timestamp(w, s) : w \in (CutoffWall - MaxWall)..(CutoffWall + MaxWall),
                       s \in Suffixes} \cup {NullTime}

FilterRecords ==
    {[keys |-> FullKeys, filename |-> <<"a">> \o Whl, url |-> "u1", time |-> t] :
        t \in Times}
    \cup {[keys |-> {"filename", "url"}, filename |-> <<"a">> \o Whl,
           url |-> "u1", time |-> NullTime]}

FilterDocs ==
    {BadDoc(sh) : sh \in BadShapes}
    \cup {OkDoc("2.0", EmptyMap)}
    \cup {OkDoc("2.0", "1.0" :> r) : r \in SeqsUpTo(FilterRecords, 1)}
    \cup {OkDoc("2.0", "2.0" :> r) : r \in SeqsUpTo(FilterRecords, MaxFiles)}

Idle ==
    /\ package_list = <<>>
    /\ source = "none"
    /\ idx = 0
    /\ package_info = None
    /\ downloaded_count = 0
    /\ reported = -1
    /\ files = EmptyMap
    /\ trace = <<>>

InitFilter ==
    /\ Idle
    /\ pc = "filter_call"
    /\ arg \in FilterDocs
    /\ ret = "pending"

CallFilter ==
    /\ pc = "filter_call"
    /\ ret = "pending"
    /\ ret' = is_updated_since_july_2025(arg)
    /\ UNCHANGED <<package_list, source, idx, pc, package_info,
                   downloaded_count, reported, files, trace, arg>>

NextFilter == CallFilter

SpecFilter == InitFilter /\ [][NextFilter]_vars

\* The first file record of the current version carries a timestamp that parses
FirstParses(d) ==
    /\ d.shape = "ok"
    /\ d.version \in DOMAIN d.releases
    /\ Len(d.releases[d.version]) >= 1
    /\ "upload_time_iso_8601" \in d.releases[d.version][1].keys
    /\ ~d.releases[d.version][1].time.null
    /\ d.releases[d.version][1].time.suffix \in {"Z", "+00:00", "+02:00", "-02:00", ""}

FirstTime(d) == d.releases[d.version][1].time

\* Hours east of UTC a suffix denotes (no suffix read as UTC)
WrittenOffset(s) ==
    CASE s = "+02:00" -> 2
      [] s = "-02:00" -> -2
      [] OTHER -> 0

\* The document with only the first file record of its current version kept
OnlyFirst(d) ==
    IF d.shape = "ok" /\ d.version \in DOMAIN d.releases
       /\ Len(d.releases[d.version]) >= 1
    THEN [d EXCEPT !.releases[d.version] = <<d.releases[d.version][1]>>]
    ELSE d

\* The document with a trailing Z of the first timestamp written +00:00
ZAsUtc(d) ==
    IF FirstParses(d) /\ FirstTime(d).suffix = "Z"
    THEN [d EXCEPT !.releases[d.version][1].time.suffix = "+00:00"]
    ELSE d

\* C6 as stated: the filter returns true exactly when the first file record of
\* the current version was uploaded at or after the one fixed instant
\* 2025-07-01T00:00:00 (UTC), whatever offset the timestamp is written in.
C6_FixedInstant ==
    ret # "pending" =>
        ((ret = "True") <=>
            (FirstParses(arg)
             /\ FirstTime(arg).wall - WrittenOffset(FirstTime(arg).suffix)
                    >= CutoffWall))

\* C6 amended: the filter returns true exactly when the first file record of the
\* current version has a timestamp that parses and whose wall-clock reading, in
\* the offset it is written in, is at or after 2025-07-01T00:00:00; it returns
\* false when the current version is missing from releases or has no file
\* record; the other records do not matter, and Z reads as +00:00.
C6_WallClockCutoff ==
    ret # "pending" =>
        /\ (ret = "True") <=>
               (FirstParses(arg) /\ FirstTime(arg).wall >= CutoffWall)
        /\ (arg.shape = "ok"
             /\ (arg.version \notin DOMAIN arg.releases
                 \/ arg.releases[arg.version] = <<>>)) => ret = "False"
        /\ ret = is_updated_since_july_2025(OnlyFirst(arg))
        /\ ret = is_updated_since_july_2025(ZAsUtc(arg))

\* Accepted on the first record alone: written at +02:00 exactly at the cutoff
\* wall clock (an instant before 2025-07-01T00:00:00Z), the second record older
C6_Witness ==
    /\ ret = "True"
    /\ arg.shape = "ok"
    /\ arg.version \in DOMAIN arg.releases
    /\ Len(arg.releases[arg.version]) = 2
    /\ FirstTime(arg).suffix = "+02:00"
    /\ FirstTime(arg).wall = CutoffWall
    /\ ~arg.releases[arg.version][2].time.null
    /\ arg.releases[arg.version][2].time.wall < CutoffWall

----------------------------------------------------------------------------
\* download_package called repeatedly for one document on one directory

DlFileNames ==
    {<<"a">> \o TarGz, <<"b">> \o TarGz, <<"a">> \o Whl, <<"b">> \o Whl,
     <<"a">> \o Zip}

DlRecords ==
    {[keys |-> FullKeys, filename |-> f, url |-> "u", time |-> NullTime] :
        f \in DlFileNames}
    \cup {[keys |-> {"url", "upload_time_iso_8601"}, filename |-> <<>>,
           url |-> "u", time |-> NullTime],
          [keys |-> {"filename", "upload_time_iso_8601"},
           filename |-> <<"a">> \o TarGz, url |-> "u", time |-> NullTime]}

DlLists ==
    UNION {{[k \in 1..n |-> [r[k] EXCEPT !.url = UrlAt(k)]] :
               r \in [1..n -> DlRecords]} : n \in 0..MaxRecs}

DlDocs ==
    {BadDoc(sh) : sh \in BadShapes}
    \cup {OkDoc("2.0", "1.0" :> <<>>)}
    \cup {OkDoc("2.0", "2.0" :> l) : l \in DlLists}

InitDownload ==
    /\ package_list = <<>>
    /\ source = "none"
    /\ idx = 0
    /\ package_info = None
    /\ downloaded_count = 0
    /\ reported = -1
    /\ trace = <<>>
    /\ pc = "download_call"
    /\ files \in {EmptyMap, (<<"a">> \o TarGz) :> "old"}
    /\ arg \in DlDocs
    /\ ret = <<>>

\* One call; ret keeps the calls made so far
CallDownload ==
    /\ pc = "download_call"
    /\ Len(ret) < MaxCalls
    /\ \E env \in Environments :
          LET r == download_package(arg, files, env.net, env.fs, env.content) IN
          /\ files' = r.dir
          /\ ret' = Append(ret, [pre |-> files, post |-> r.dir,
                                  result |-> r.result, requests |-> r.requests,
                                  net |-> env.net, fs |-> env.fs,
                                  content |-> env.content])
    /\ UNCHANGED <<package_list, source, idx, pc, package_info,
                   downloaded_count, reported, trace, arg>>

NextDownload == CallDownload

SpecDownload == InitDownload /\ [][NextDownload]_vars

\* The file list of the document's current version, when every record of it is
\* a file record (has a filename and a url)
HasFileList(d) ==
    /\ d.shape = "ok"
    /\ d.version \in DOMAIN d.releases
    /\ \A k \in DOMAIN d.releases[d.version] :
          {"filename", "url"} \subseteq d.releases[d.version][k].keys

FileList(d) == d.releases[d.version]

IsTarGz(d, k) == EndsWith(FileList(d)[k].filename, TarGz)
IsWhl(d, k) == EndsWith(FileList(d)[k].filename, Whl)

\* The positions the selection policy allows: the first .tar.gz record if
\* there is one, else the first .whl record
Preferred(d) ==
    {k \in DOMAIN FileList(d) :
        \/ IsTarGz(d, k) /\ \A j \in 1..(k - 1) : ~IsTarGz(d, j)
        \/ /\ \A j \in DOMAIN FileList(d) : ~IsTarGz(d, j)
           /\ IsWhl(d, k) /\ \A j \in 1..(k - 1) : ~IsWhl(d, j)}

\* C4: a call that finds the selected artifact's filename in the directory
\* returns true, issues no artifact request and leaves the directory as it
\* was; so after a call that returned true, another call for the same
\* document changes nothing and returns true again.
C4_Idempotent ==
    \A n \in DOMAIN ret :
        /\ (HasFileList(arg)
             /\ \E k \in Preferred(arg) :
                    FileList(arg)[k].filename \in DOMAIN ret[n].pre)
               => /\ ret[n].result
                  /\ ret[n].requests = <<>>
                  /\ ret[n].post = ret[n].pre
        /\ (n > 1 /\ ret[n - 1].result)
               => /\ ret[n].result
                  /\ ret[n].requests = <<>>
                  /\ ret[n].post = ret[n - 1].post

\* A first call downloaded the file, and a second call, answered another
\* payload by the network, left it alone
C4_Witness ==
    /\ Len(ret) = 2
    /\ ret[1].requests # <<>> /\ ret[1].result
    /\ ret[1].content = "c1" /\ ret[2].content = "c2"
    /\ ret[2].result /\ ret[2].requests = <<>>
    /\ files = ret[1].post

\* C5: on a file list of the current version the call acts on the first
\* .tar.gz record if there is one, else on the first .whl record (any request
\* goes to that record's url, any file written has its filename); when no
\* record has either suffix it returns false, requests nothing and writes
\* nothing.
C5_Selection ==
    \A n \in DOMAIN ret :
        HasFileList(arg) =>
            /\ \A k \in Preferred(arg) :
                  /\ ret[n].requests \in {<<>>, <<FileList(arg)[k].url>>}
                  /\ DOMAIN ret[n].post \subseteq
                         DOMAIN ret[n].pre \cup {FileList(arg)[k].filename}
                  /\ (FileList(arg)[k].filename \notin DOMAIN ret[n].pre)
                        => ret[n].requests = <<FileList(arg)[k].url>>
                  /\ (ret[n].net = "ok" /\ ret[n].fs = "ok")
                        => /\ ret[n].result
                           /\ FileList(arg)[k].filename \in DOMAIN ret[n].post
            /\ Preferred(arg) = {}
                  => /\ ~ret[n].result
                     /\ ret[n].requests = <<>>
                     /\ ret[n].post = ret[n].pre

\* A wheel listed before a source archive: the archive was requested and written
C5_Witness ==
    /\ Len(ret) >= 1
    /\ HasFileList(arg)
    /\ Len(FileList(arg)) = 2
    /\ IsWhl(arg, 1) /\ IsTarGz(arg, 2)
    /\ ret[1].requests = <<UrlAt(2)>>
    /\ ret[1].result
    /\ FileList(arg)[2].filename \in DOMAIN files
    /\ FileList(arg)[1].filename \notin DOMAIN files

\* C10: a call whose artifact request failed returns false and creates no
\* file, so the next call for the same document on the same directory issues
\* the request again.
C10_NoMarkerOnFailedRequest ==
    \A n \in DOMAIN ret :
        (ret[n].requests # <<>> /\ ret[n].net = "fail")
            => /\ ~ret[n].result
               /\ ret[n].post = ret[n].pre
               /\ (n + 1 \in DOMAIN ret) => ret[n + 1].requests = ret[n].requests

\* A failed request followed by a call that requested again and succeeded
C10_Witness ==
    /\ Len(ret) = 2
    /\ ret[1].requests # <<>> /\ ret[1].net = "fail"
    /\ ret[2].requests = ret[1].requests
    /\ ret[2].result
    /\ files # ret[1].post

----------------------------------------------------------------------------
\* The feed parser applied to bounded feeds

SmallItems ==
    {Title(<<"f", "o", "o", " ", "1", ".", "2", ".", "3">>),
     Title(<<"b", "a", "r", " ", "0", ".", "1">>),
     Title(<<"f", "o", "o", " ", "1", ".", "3", ".", "0">>),
     Title(<<" ", "b", "a", "r", "\t", "2">>),
     Title(<<" ">>),
     [title |-> "null", text |-> <<>>],
     [title |-> "absent", text |-> <<>>]}

DigitChar == <<"0", "1", "2", "3", "4", "5", "6", "7", "8", "9">>

RECURSIVE Digits(_)
Digits(n) ==
    IF n < 10 THEN <<DigitChar[n + 1]>>
    ELSE Digits(n \div 10) \o <<DigitChar[(n % 10) + 1]>>

\* n items titled "p<j mod m> 1"
GeneratedFeed(n, m) ==
    [status |-> "ok",
     items |-> [j \in 1..n |-> Title(<<"p">> \o Digits(j % m) \o <<" ", "1">>)]]

RssFeeds ==
    {[status |-> st, items |-> <<>>] : st \in {"fail", "badxml"}}
    \cup {[status |-> "ok", items |-> its] : its \in SeqsUpTo(SmallItems, MaxRssItems)}
    \cup {GeneratedFeed(n, m) : n \in (RssLimit - 1)..(RssLimit + MaxOver),
                                m \in {2, RssLimit, RssLimit + MaxOver + 1}}

InitRss ==
    /\ Idle
    /\ pc = "rss_fetch"
    /\ arg \in RssFeeds
    /\ ret = <<>>

NextRss == RssFetch \/ RssIterate \/ RssReturn

SpecRss == InitRss /\ [][NextRss]_vars

\* The first whitespace-delimited token of a title, <<>> when it has none
TokenOf(s) ==
    LET inked == {i \in DOMAIN s : s[i] \notin Whitespace} IN
    IF inked = {} THEN <<>>
    ELSE LET a == CHOOSE i \in inked : \A j \in inked : i <= j
             b == CHOOSE i \in a..Len(s) :
                     /\ \A j \in a..i : s[j] \notin Whitespace
                     /\ i = Len(s) \/ s[i + 1] \in Whitespace
         IN SubSeq(s, a, b)

\* The items that have a title element
Titled(feed) == {j \in DOMAIN feed.items : feed.items[j].title # "absent"}

\* The titled items whose title has a first token
Named(feed) ==
    {j \in Titled(feed) :
        feed.items[j].title = "text" /\ TokenOf(feed.items[j].text) # <<>>}

\* First tokens in feed order, first occurrences only, at most RssLimit
FirstNames(feed) ==
    LET toks == [j \in DOMAIN feed.items |-> TokenOf(feed.items[j].text)]
        named == Named(feed)
        firsts == {j \in named : \A i \in named : i < j => toks[i] # toks[j]}
        rank == [j \in firsts |-> Cardinality({i \in firsts : i <= j})]
    IN [k \in 1..Min(RssLimit, Cardinality(firsts)) |->
           toks[CHOOSE j \in firsts : rank[j] = k]]

\* C8 as stated: for every feed the result is the deduplicated first tokens of
\* the item titles, in feed order, cut to RssLimit.
C8_AnyFeed ==
    (pc = "rss_done" /\ arg.status = "ok") => ret = FirstNames(arg)

\* C8 amended: when every titled item has a title with a first token, the
\* result is the deduplicated first tokens in feed order, cut to RssLimit; when
\* some titled item has an empty or blank title, or the feed could not be
\* fetched or parsed, the result is empty. Items without a title are skipped.
C8_WellTitledFeed ==
    pc = "rss_done" =>
        /\ (arg.status = "ok" /\ Named(arg) = Titled(arg))
               => ret = FirstNames(arg)
        /\ (arg.status = "ok" /\ Named(arg) # Titled(arg)) => ret = <<>>
        /\ arg.status # "ok" => ret = <<>>

\* More than RssLimit distinct names in the feed, RssLimit returned
C8_Witness ==
    /\ pc = "rss_done"
    /\ Len(arg.items) > RssLimit
    /\ Cardinality({TokenOf(arg.items[j].text) : j \in DOMAIN arg.items})
          > RssLimit
    /\ Len(ret) = RssLimit

====
